---- MODULE Spec2Model ----
(***************************************************************************)
(* Model of the two scripts of mo-san/nijisanji-voice:                     *)
(*   rename_mp3.py      parses voice-pack file names and renames the files *)
(*   write_mp3_tags.py  parses the renamed file names and writes ID3 tags  *)
(*                                                                         *)
(* A Python str is modelled as a sequence of one-character strings, so     *)
(* that split, slicing, startswith, endswith and int() are computed and    *)
(* not assumed.  A pathlib.Path is modelled as the sequence of its parts;  *)
(* an absolute path starts with the part "/".                              *)
(***************************************************************************)
EXTENDS Integers, Sequences, FiniteSets, TLC

VARIABLES
    \* ---- the parsers applied to one file name ----
    script,        \* which script's parser is applied: "rename" or "tags"
    file_name,     \* the file name handed to the parser
    parsed_name,   \* result of rename_mp3.parse_file_name
    new_name,      \* result of generate_new_file_name
    id3,           \* result of write_mp3_tags.parse_file_name
    \* ---- one run of a script over a directory ----
    mode,          \* "Rename" (rename_mp3.py) or "TagWrite" (write_mp3_tags.py)
    root,          \* --directory, as a Path
    recursive,     \* --recursive
    dry_run,       \* --dry-run
    platform,      \* "posix" or "windows": decides what Path.rename does to an existing target
    fs,            \* the files on disk: absolute path -> identity of the file's content
    tagdb,         \* the tag container of each file content: NoHeader or a tag record
    plan,          \* renamed_files / processed_files
    status,        \* per planned item: "Planned", "Succeeded" or "Failed"
    out,           \* what the run printed or showed, in order
    pc,            \* "start", "preview", "executing", "done", "cancelled"
    idx,           \* position of the executor's for loop
    calls,         \* the rename calls issued: item, source, target, what was on disk, result
    lost,          \* file contents destroyed by a rename that replaced its target
    snap,          \* fs and tagdb when the confirm button was pressed
    clicks,        \* how often the confirm button was pressed
    deletes        \* how many files another process removed

vars == <<script, file_name, parsed_name, new_name, id3,
          mode, root, recursive, dry_run, platform, fs, tagdb, plan, status,
          out, pc, idx, calls, lost, snap, clicks, deletes>>

parseVars == <<script, file_name, parsed_name, new_name, id3>>
runVars == <<mode, root, recursive, dry_run, platform, fs, tagdb, plan, status,
             out, pc, idx, calls, lost, snap, clicks, deletes>>

\* ---------------------------------------------------------------- bounds

MaxNameLen == 6
MaxPrefixLen == 3
MaxTrackLen == 4
MaxComposeLen == 5

\* ---------------------------------------------------------------- values

None == [none |-> TRUE]
Unset == [unset |-> TRUE]

Ext == <<".", "m", "p", "3">>

Strings(A, n) == UNION {[1..k -> A] : k \in 0..n}

\* ---------------------------------------------------------------- str

StartsWith(s, p) == Len(s) >= Len(p) /\ SubSeq(s, 1, Len(p)) = p

EndsWith(s, p) == Len(s) >= Len(p) /\ SubSeq(s, Len(s) - Len(p) + 1, Len(s)) = p

Contains(s, c) == \E i \in 1..Len(s) : s[i] = c

\* s.index(c): zero-based position of the first c
IndexOf(s, c) == (CHOOSE i \in 1..Len(s) : s[i] = c /\ \A j \in 1..(i - 1) : s[j] # c) - 1

\* s[a:b] for 0 <= a and any b: a negative b counts from the end
PySlice(s, a, b) ==
    LET stop == IF b < 0 THEN Len(s) + b ELSE IF b > Len(s) THEN Len(s) ELSE b
    IN  IF stop <= a THEN <<>> ELSE SubSeq(s, a + 1, stop)

\* s[a:]
PyFrom(s, a) == IF a >= Len(s) THEN <<>> ELSE SubSeq(s, a + 1, Len(s))

\* position (one-based) of the first occurrence of sep in s at or after i, 0 if none
RECURSIVE Find(_, _, _)
Find(s, sep, i) ==
    IF i + Len(sep) - 1 > Len(s) THEN 0
    ELSE IF SubSeq(s, i, i + Len(sep) - 1) = sep THEN i
    ELSE Find(s, sep, i + 1)

\* s.split(sep, maxsplit); maxsplit = -1 is no limit
RECURSIVE SplitMax(_, _, _)
SplitMax(s, sep, maxsplit) ==
    LET p == Find(s, sep, 1)
    IN  IF maxsplit = 0 \/ p = 0 THEN <<s>>
        ELSE <<SubSeq(s, 1, p - 1)>>
             \o SplitMax(PyFrom(s, p + Len(sep) - 1), sep,
                         IF maxsplit < 0 THEN maxsplit ELSE maxsplit - 1)

Split(s, sep) == SplitMax(s, sep, -1)

\* ---------------------------------------------------------------- int()

Digits == {"0", "1", "2", "3", "4", "5", "6", "7", "8", "9"}

DigitVal(c) ==
    CASE c = "0" -> 0 [] c = "1" -> 1 [] c = "2" -> 2 [] c = "3" -> 3 [] c = "4" -> 4
      [] c = "5" -> 5 [] c = "6" -> 6 [] c = "7" -> 7 [] c = "8" -> 8 [] c = "9" -> 9

\* digits with single underscores between them, as int() accepts
IsDigitGroup(s) ==
    /\ Len(s) >= 1
    /\ s[1] \in Digits
    /\ s[Len(s)] \in Digits
    /\ \A i \in 1..Len(s) : s[i] \in Digits \/ s[i] = "_"
    /\ \A i \in 1..(Len(s) - 1) : ~(s[i] = "_" /\ s[i + 1] = "_")

RECURSIVE DecimalValue(_)
DecimalValue(s) ==
    IF s = <<>> THEN 0
    ELSE IF s[Len(s)] = "_" THEN DecimalValue(SubSeq(s, 1, Len(s) - 1))
    ELSE 10 * DecimalValue(SubSeq(s, 1, Len(s) - 1)) + DigitVal(s[Len(s)])

\* int(s): [ok |-> FALSE] stands for ValueError
PyInt(s) ==
    LET signed == Len(s) >= 1 /\ s[1] \in {"+", "-"}
        body == IF signed THEN PyFrom(s, 1) ELSE s
    IN  IF IsDigitGroup(body)
        THEN [ok |-> TRUE,
              val |-> IF signed /\ s[1] = "-" THEN 0 - DecimalValue(body) ELSE DecimalValue(body)]
        ELSE [ok |-> FALSE, val |-> 0]

\* ---------------------------------------------------------------- NFKC

\* unicodedata.normalize('NFKC', c) on the characters of the model: the fullwidth
\* forms fold to their ASCII counterparts, every other character is already normal
NFKCChar(c) ==
    CASE c = "U+FF3F" -> "_"
      [] c = "U+FF3B" -> "["
      [] c = "U+FF3D" -> "]"
      [] OTHER -> c

normalize_file_name(file) == [i \in 1..Len(file) |-> NFKCChar(file[i])]

\* ---------------------------------------------------------------- rename_mp3.py

rename_parse_file_name(file) ==
    IF StartsWith(file, <<"E", "X", "_">>)
    THEN LET parts == Split(PySlice(file, 3, -4), <<"_">>)
         IN  IF Len(parts) = 2
             THEN [Character |-> parts[1], Suffix |-> parts[2], IsEX |-> TRUE]
             ELSE None
    ELSE LET parts == Split(PySlice(file, 0, -4), <<"_">>)
         IN  IF Len(parts) = 2
             THEN [Character |-> parts[1], Suffix |-> parts[2], IsEX |-> FALSE]
             ELSE IF Len(parts) = 3 /\ parts[1] = <<"0", "1">>
             THEN [Character |-> parts[2], Suffix |-> parts[3], IsEX |-> FALSE]
             ELSE None

\* generate_new_file_name with the index token "01" for every record
generate_new_file_name_one_index(p) ==
    <<"[">> \o p.Suffix \o <<"]">> \o p.Character \o <<" ", "-", " ">>
    \o <<"0", "1">> \o <<" ">> \o p.Suffix
    \o (IF p.IsEX THEN <<" ", "E", "X">> ELSE <<>>) \o Ext

generate_new_file_name(p) ==
    LET number == IF p.IsEX THEN <<"0", "2">> ELSE <<"0", "1">>
        ex_suffix == IF p.IsEX THEN <<" ", "E", "X">> ELSE <<>>
    IN  <<"[">> \o p.Suffix \o <<"]">> \o p.Character \o <<" ", "-", " ">>
        \o number \o <<" ">> \o p.Suffix \o ex_suffix \o Ext

\* ---------------------------------------------------------------- write_mp3_tags.py

Decorate(track_name, artist_name) ==
    IF EndsWith(track_name, <<" ", "E", "X">>)
    THEN PySlice(track_name, 0, -3) \o <<" ", "(">> \o artist_name \o <<")", " ", "E", "X">>
    ELSE track_name \o <<" ", "(">> \o artist_name \o <<")">>

extract_track_info(track_part, artist_name) ==
    LET track_info == SplitMax(track_part, <<" ">>, 1)
    IN  IF Len(track_info) # 2
        THEN [number |-> 1, name |-> track_part \o <<" ", "(">> \o artist_name \o <<")">>]
        ELSE LET n == PyInt(track_info[1])
             IN  IF n.ok
                 THEN [number |-> n.val, name |-> Decorate(track_info[2], artist_name)]
                 ELSE [number |-> 1, name |-> Decorate(track_part, artist_name)]

tags_parse_file_name(file) ==
    IF ~EndsWith(file, Ext) THEN None
    ELSE LET parts == Split(PySlice(file, 0, -4), <<" ", "-", " ">>)
         IN  IF Len(parts) # 2 THEN None
             ELSE LET prefix_part == parts[1]
                      track_part == parts[2]
                  IN  IF ~StartsWith(prefix_part, <<"[">>) \/ ~Contains(prefix_part, "]")
                      THEN None
                      ELSE LET album_name == PySlice(prefix_part, 1, IndexOf(prefix_part, "]"))
                               artist_name == PyFrom(prefix_part, IndexOf(prefix_part, "]") + 1)
                               t == extract_track_info(track_part, artist_name)
                           IN  [track_name |-> t.name,
                                artist_name |-> artist_name,
                                album_name |-> album_name,
                                track_number |-> t.number]

\* ================================================================ the parsers on one name

\* names a directory listing can hand to rename_mp3.py: "*.mp3" over the characters
\* its conventions are made of
NameChars == {"E", "X", "_", "0", "1"}
RenameInputs == {b \o Ext : b \in Strings(NameChars, MaxNameLen)}

\* names a directory listing can hand to write_mp3_tags.py: a prefix, something
\* between prefix and track, a track part
PrefixChars == {"[", "]", "a"}
TrackChars == {"0", "1", " ", "E", "X"}
Separators == {<<" ", "-", " ">>, <<"-">>, <<" ", "-", " ", "-", " ">>,
               <<" ", "-", " ", "a", " ", "-", " ">>}
TagInputs == {p \o m \o t \o Ext : p \in Strings(PrefixChars, MaxPrefixLen),
                                   m \in Separators,
                                   t \in Strings(TrackChars, MaxTrackLen)}

\* names whose parsed fields carry the characters the tag parser gives a meaning to
ComposeChars == {"E", "X", "_", "]", " ", "-"}
ComposeInputs == {b \o Ext : b \in Strings(ComposeChars, MaxComposeLen)}

NoRun ==
    /\ mode = "none" /\ root = <<>> /\ recursive = FALSE /\ dry_run = FALSE
    /\ platform = "posix" /\ fs = <<>> /\ tagdb = <<>> /\ plan = <<>> /\ status = <<>>
    /\ out = <<>> /\ pc = "none" /\ idx = 0 /\ calls = <<>> /\ lost = {} /\ snap = None
    /\ clicks = 0 /\ deletes = 0

InitParsers ==
    /\ \/ script = "rename" /\ file_name \in RenameInputs
       \/ script = "tags" /\ file_name \in TagInputs
    /\ parsed_name = Unset /\ new_name = Unset /\ id3 = Unset
    /\ NoRun

InitCompose ==
    /\ script = "rename" /\ file_name \in ComposeInputs
    /\ parsed_name = Unset /\ new_name = Unset /\ id3 = Unset
    /\ NoRun

\* rename_mp3.py: parsed_name = parse_file_name(normalized_file_name)
ParseName ==
    /\ script = "rename" /\ parsed_name = Unset
    /\ parsed_name' = rename_parse_file_name(file_name)
    /\ UNCHANGED <<script, file_name, new_name, id3>>
    /\ UNCHANGED runVars

\* rename_mp3.py: new_name = generate_new_file_name(parsed_name)
GenerateName ==
    /\ parsed_name # Unset /\ parsed_name # None /\ new_name = Unset
    /\ new_name' = generate_new_file_name(parsed_name)
    /\ UNCHANGED <<script, file_name, parsed_name, id3>>
    /\ UNCHANGED runVars

\* write_mp3_tags.py: tags = parse_file_name(file_path.name)
ParseTags ==
    /\ script = "tags" /\ id3 = Unset
    /\ id3' = tags_parse_file_name(file_name)
    /\ UNCHANGED <<script, file_name, parsed_name, new_name>>
    /\ UNCHANGED runVars

\* write_mp3_tags.py run on a file that rename_mp3.py named
ParseGenerated ==
    /\ new_name # Unset /\ id3 = Unset
    /\ id3' = tags_parse_file_name(new_name)
    /\ UNCHANGED <<script, file_name, parsed_name, new_name>>
    /\ UNCHANGED runVars

NextParsers == ParseName \/ GenerateName \/ ParseTags
SpecParsers == InitParsers /\ [][NextParsers]_vars

NextCompose == ParseName \/ GenerateName \/ ParseGenerated
SpecCompose == InitCompose /\ [][NextCompose]_vars

\* ================================================================ one run over a directory

MaxFiles == 2
MaxClicks == 2
MaxDeletes == 1

\* ---------------------------------------------------------------- pathlib and the disk

Slash == <<"/">>
Home == <<"h", "o", "m", "e">>
Music == <<"m", "u", "s", "i", "c">>

\* the process's working directory, and the directories that exist
Cwd == <<Slash, Home>>
Dirs == {<<Slash>>, <<Slash, Home>>, <<Slash, Home, Music>>, <<Slash, Home, Music, Music>>}

IsAbsolute(p) == p # <<>> /\ p[1] = Slash

\* Path.__truediv__: an absolute right operand replaces the left one
Join(a, b) == IF IsAbsolute(b) THEN b ELSE a \o b

\* the file the operating system resolves a path to
Abs(p) == Join(Cwd, p)

PathName(p) == p[Len(p)]
PathParent(p) == SubSeq(p, 1, Len(p) - 1)

IsPrefix(a, b) == Len(a) <= Len(b) /\ SubSeq(b, 1, Len(a)) = a

\* Path(directory).glob("*.mp3") / rglob("*.mp3"): the paths it yields, each the
\* directory joined with the entry's location below it
Glob(directory_path, deep, files) ==
    LET base == Abs(directory_path)
    IN  {directory_path \o SubSeq(f, Len(base) + 1, Len(f)) :
            f \in {g \in DOMAIN files :
                      IF deep THEN IsPrefix(base, PathParent(g)) ELSE PathParent(g) = base}}

\* the orders in which the operating system may enumerate a set of entries
Orders(S) == {o \in [1..Cardinality(S) -> S] : \A i, j \in 1..Cardinality(S) : o[i] = o[j] => i = j}

Without(f, x) == [y \in DOMAIN f \ {x} |-> f[y]]
With(f, x, v) == [y \in DOMAIN f \cup {x} |-> IF y = x THEN v ELSE f[y]]

\* os.rename(src, dst) as Path.rename calls it: what is on disk afterwards, the
\* content it destroyed, and whether it raised
os_rename(plat, files, src, dst) ==
    IF src \notin DOMAIN files \/ PathParent(dst) \notin Dirs
    THEN [raised |-> TRUE, fs |-> files, lost |-> {}]
    ELSE IF src = dst
    THEN [raised |-> FALSE, fs |-> files, lost |-> {}]
    ELSE IF dst \in DOMAIN files
    THEN IF plat = "windows"
         THEN [raised |-> TRUE, fs |-> files, lost |-> {}]
         ELSE [raised |-> FALSE, fs |-> With(Without(files, src), dst, files[src]),
               lost |-> {files[dst]}]
    ELSE [raised |-> FALSE, fs |-> With(Without(files, src), dst, files[src]), lost |-> {}]

\* ---------------------------------------------------------------- rename_mp3.py

RECURSIVE get_renamed_files(_)
get_renamed_files(listing) ==
    IF listing = <<>> THEN [renamed_files |-> <<>>, printed |-> <<>>]
    ELSE LET file_path == Head(listing)
             rest == get_renamed_files(Tail(listing))
             normalized_file_name == normalize_file_name(PathName(file_path))
             parsed == rename_parse_file_name(normalized_file_name)
         IN  IF parsed = None
             THEN [renamed_files |-> rest.renamed_files,
                   printed |-> <<[kind |-> "Skipped", path |-> file_path]>> \o rest.printed]
             ELSE [renamed_files |->
                       <<[old |-> file_path,
                          new |-> PathParent(file_path) \o <<generate_new_file_name(parsed)>>]>>
                       \o rest.renamed_files,
                   printed |-> rest.printed]

\* the loop body of rename_files without its dry-run test: the preview line is
\* printed and the rename is issued all the same
rename_files_always_renames(path, item, i, dry, plat, files) ==
    LET old_path == Join(path, item.old)
        new_path == Join(path, item.new)
        r == os_rename(plat, files, Abs(old_path), Abs(new_path))
    IN  [raised |-> r.raised, fs |-> r.fs, lost |-> r.lost,
         called |-> <<[item |-> i, src |-> Abs(old_path), dst |-> Abs(new_path),
                       src_there |-> Abs(old_path) \in DOMAIN files,
                       dst_there |-> Abs(new_path) \in DOMAIN files,
                       raised |-> r.raised]>>,
         printed |-> IF dry
                     THEN <<[kind |-> "DryRun", item |-> i, old |-> old_path, new |-> new_path]>>
                     ELSE <<>>]

\* one pass of the for loop of rename_files
rename_files(path, item, i, dry, plat, files) ==
    LET old_path == Join(path, item.old)
        new_path == Join(path, item.new)
    IN  IF dry
        THEN [raised |-> FALSE, fs |-> files, lost |-> {}, called |-> <<>>,
              printed |-> <<[kind |-> "DryRun", item |-> i, old |-> old_path, new |-> new_path]>>]
        ELSE LET r == os_rename(plat, files, Abs(old_path), Abs(new_path))
             IN  [raised |-> r.raised, fs |-> r.fs, lost |-> r.lost,
                  called |-> <<[item |-> i, src |-> Abs(old_path), dst |-> Abs(new_path),
                                src_there |-> Abs(old_path) \in DOMAIN files,
                                dst_there |-> Abs(new_path) \in DOMAIN files,
                                raised |-> r.raised]>>,
                  printed |-> <<>>]

\* ---------------------------------------------------------------- write_mp3_tags.py

RECURSIVE process_files(_)
process_files(listing) ==
    IF listing = <<>> THEN [processed_files |-> <<>>, printed |-> <<>>]
    ELSE LET file_path == Head(listing)
             rest == process_files(Tail(listing))
             tags == tags_parse_file_name(PathName(file_path))
         IN  IF tags = None
             THEN [processed_files |-> rest.processed_files,
                   printed |-> <<[kind |-> "Skipped", path |-> file_path]>> \o rest.printed]
             ELSE [processed_files |-> <<[old |-> file_path, tags |-> tags]>> \o rest.processed_files,
                   printed |-> rest.printed]

\* str(n) of an int
RECURSIVE PyStr(_)
PyStr(n) ==
    LET d == <<"0", "1", "2", "3", "4", "5", "6", "7", "8", "9">>
    IN  IF n < 0 THEN <<"-">> \o PyStr(0 - n)
        ELSE IF n < 10 THEN <<d[n + 1]>>
        ELSE PyStr(n \div 10) \o <<d[(n % 10) + 1]>>

NoHeader == [header |-> FALSE]
EmptyID3 == [header |-> TRUE, title |-> None, artist |-> None, album |-> None, tracknumber |-> None]

write_id3_tags(file_path, tags, i, dry, files, db) ==
    IF dry
    THEN [raised |-> FALSE, tagdb |-> db,
          printed |-> <<[kind |-> "DryRun", item |-> i, path |-> file_path, tags |-> tags]>>]
    ELSE IF Abs(file_path) \notin DOMAIN files
    THEN [raised |-> TRUE, tagdb |-> db, printed |-> <<>>]
    ELSE LET content == files[Abs(file_path)]
             audio == IF db[content] = NoHeader THEN EmptyID3 ELSE db[content]
         IN  [raised |-> FALSE,
              tagdb |-> [db EXCEPT ![content] =
                            [audio EXCEPT !.title = tags.track_name,
                                          !.artist = tags.artist_name,
                                          !.album = tags.album_name,
                                          !.tracknumber = PyStr(tags.track_number)]],
              printed |-> <<[kind |-> "Processed", path |-> file_path]>>]

\* ---------------------------------------------------------------- the run

\* the names of the files the directories may hold
FileNames ==
    { <<"A", "_", "G">> \o Ext,
      <<"0", "1", "_", "A", "_", "G">> \o Ext,
      <<"E", "X", "_", "A", "_", "G">> \o Ext,
      <<"A", "U+FF3F", "G">> \o Ext,
      <<"[", "G", "]", "A", " ", "-", " ", "0", "1", " ", "G">> \o Ext,
      <<"U+FF3B", "G", "U+FF3D", "A", " ", "-", " ", "0", "1", " ", "G">> \o Ext }

\* the subdirectory holds a copy of a source name and of a target name
SubNames ==
    { <<"A", "_", "G">> \o Ext,
      <<"[", "G", "]", "A", " ", "-", " ", "0", "1", " ", "G">> \o Ext }

Locations == {<<Slash, Home, Music, n>> : n \in FileNames}
             \cup {<<Slash, Home, Music, Music, n>> : n \in SubNames}

Roots == {<<Slash, Home, Music>>, <<Music>>}

NoParse ==
    /\ script = "none" /\ file_name = <<>>
    /\ parsed_name = Unset /\ new_name = Unset /\ id3 = Unset

Init ==
    /\ NoParse
    /\ mode \in {"Rename", "TagWrite"}
    /\ root \in Roots
    /\ recursive \in BOOLEAN
    /\ dry_run \in BOOLEAN
    /\ platform \in {"posix", "windows"}
    /\ \E F \in SUBSET Locations :
          /\ Cardinality(F) <= MaxFiles
          /\ fs = [f \in F |-> f]
          /\ \E H \in SUBSET F :
                /\ mode = "Rename" => H = {}
                /\ tagdb = [f \in F |-> IF f \in H THEN EmptyID3 ELSE NoHeader]
    /\ plan = <<>> /\ status = <<>> /\ out = <<>>
    /\ pc = "start" /\ idx = 0
    /\ calls = <<>> /\ lost = {} /\ snap = None
    /\ clicks = 0 /\ deletes = 0

\* main up to root.mainloop(): the listing is read and planned, the preview is shown
Plan ==
    /\ pc = "start"
    /\ \E listing \in Orders(Glob(root, recursive, fs)) :
          LET r == IF mode = "Rename"
                   THEN LET g == get_renamed_files(listing)
                        IN  [items |-> g.renamed_files, printed |-> g.printed]
                   ELSE LET g == process_files(listing)
                        IN  [items |-> g.processed_files, printed |-> g.printed]
          IN  /\ plan' = r.items
              /\ status' = [i \in 1..Len(r.items) |-> "Planned"]
              /\ out' = out \o r.printed
    /\ pc' = "preview"
    /\ UNCHANGED <<mode, root, recursive, dry_run, platform, fs, tagdb, idx, calls, lost,
                   snap, clicks, deletes>>
    /\ UNCHANGED parseVars

\* the confirm button: rename_files / execute_writes starts its loop
Confirm ==
    /\ pc = "preview"
    /\ clicks < MaxClicks
    /\ clicks' = clicks + 1
    /\ pc' = "executing"
    /\ idx' = 1
    /\ status' = [i \in 1..Len(plan) |-> "Planned"]
    /\ snap' = [fs |-> fs, tagdb |-> tagdb]
    /\ UNCHANGED <<mode, root, recursive, dry_run, platform, fs, tagdb, plan, out, calls,
                   lost, deletes>>
    /\ UNCHANGED parseVars

\* the cancel button: root.destroy
Cancel ==
    /\ pc = "preview"
    /\ pc' = "cancelled"
    /\ UNCHANGED <<mode, root, recursive, dry_run, platform, fs, tagdb, plan, status, out,
                   idx, calls, lost, snap, clicks, deletes>>
    /\ UNCHANGED parseVars

\* rename_files: one pass of the loop. An exception leaves the loop and the handler;
\* Tk reports it and the preview stays open
RenameStep ==
    /\ pc = "executing" /\ mode = "Rename" /\ idx <= Len(plan)
    /\ LET r == rename_files(root, plan[idx], idx, dry_run, platform, fs)
       IN  /\ fs' = r.fs
           /\ lost' = lost \cup r.lost
           /\ calls' = calls \o r.called
           /\ IF r.raised
              THEN /\ status' = [status EXCEPT ![idx] = "Failed"]
                   /\ out' = out \o r.printed \o <<[kind |-> "Traceback", item |-> idx]>>
                   /\ pc' = "preview"
                   /\ idx' = 0
              ELSE /\ status' = [status EXCEPT ![idx] = IF dry_run THEN "Planned" ELSE "Succeeded"]
                   /\ out' = out \o r.printed
                   /\ pc' = pc
                   /\ idx' = idx + 1
    /\ UNCHANGED <<mode, root, recursive, dry_run, platform, tagdb, plan, snap, clicks, deletes>>
    /\ UNCHANGED parseVars

\* rename_files after the loop: the completion box unless dry-run, then root.destroy
RenameFinish ==
    /\ pc = "executing" /\ mode = "Rename" /\ idx > Len(plan)
    /\ out' = IF dry_run THEN out ELSE out \o <<[kind |-> "ShowInfo"]>>
    /\ pc' = "done"
    /\ UNCHANGED <<mode, root, recursive, dry_run, platform, fs, tagdb, plan, status, idx,
                   calls, lost, snap, clicks, deletes>>
    /\ UNCHANGED parseVars

\* execute_writes: one pass of the loop
TagWriteStep ==
    /\ pc = "executing" /\ mode = "TagWrite" /\ idx <= Len(plan)
    /\ LET r == write_id3_tags(plan[idx].old, plan[idx].tags, idx, dry_run, fs, tagdb)
       IN  /\ tagdb' = r.tagdb
           /\ IF r.raised
              THEN /\ status' = [status EXCEPT ![idx] = "Failed"]
                   /\ out' = out \o r.printed \o <<[kind |-> "Traceback", item |-> idx]>>
                   /\ pc' = "preview"
                   /\ idx' = 0
              ELSE /\ status' = [status EXCEPT ![idx] = IF dry_run THEN "Planned" ELSE "Succeeded"]
                   /\ out' = out \o r.printed
                   /\ pc' = pc
                   /\ idx' = idx + 1
    /\ UNCHANGED <<mode, root, recursive, dry_run, platform, fs, plan, calls, lost, snap,
                   clicks, deletes>>
    /\ UNCHANGED parseVars

\* execute_writes after the loop: the completion box, then root.destroy
TagWriteFinish ==
    /\ pc = "executing" /\ mode = "TagWrite" /\ idx > Len(plan)
    /\ out' = out \o <<[kind |-> "ShowInfo"]>>
    /\ pc' = "done"
    /\ UNCHANGED <<mode, root, recursive, dry_run, platform, fs, tagdb, plan, status, idx,
                   calls, lost, snap, clicks, deletes>>
    /\ UNCHANGED parseVars

\* another process removes a file while the preview is open or the loop runs
ExternalDelete ==
    /\ pc \in {"preview", "executing"}
    /\ deletes < MaxDeletes
    /\ \E f \in DOMAIN fs : fs' = Without(fs, f)
    /\ deletes' = deletes + 1
    /\ UNCHANGED <<mode, root, recursive, dry_run, platform, tagdb, plan, status, out, pc,
                   idx, calls, lost, snap, clicks>>
    /\ UNCHANGED parseVars

Next ==
    \/ Plan
    \/ Confirm
    \/ Cancel
    \/ RenameStep
    \/ RenameFinish
    \/ TagWriteStep
    \/ TagWriteFinish
    \/ ExternalDelete

Spec == Init /\ [][Next]_vars

\* ================================================================ claims about a run

Printed(k) == SelectSeq(out, LAMBDA e : e.kind = k)

Returned == clicks >= 1 /\ pc \in {"preview", "done"}

\* C1: when two planned renames have the same target, the conflict is surfaced and no
\* commit run ends with both renames succeeded or with one file overwritten by the other.
C1_CollisionSurfaced ==
    (mode = "Rename" /\ ~dry_run /\ pc = "done") =>
        \A i, j \in 1..Len(plan) :
            (i < j /\ plan[i].new = plan[j].new) =>
                /\ Printed("Conflict") # <<>>
                /\ ~(status[i] = "Succeeded" /\ status[j] = "Succeeded")
                /\ lost = {}

\* C2: in commit mode, when the mutation of item k fails, the items after k are still
\* executed and none is left unattempted when the executor returns.
C2_FailureDoesNotAbort ==
    (~dry_run /\ Returned) =>
        \A k \in 1..Len(plan) :
            status[k] = "Failed" => \A j \in (k + 1)..Len(plan) : status[j] # "Planned"

\* C3: with dry-run on, the executor issues no rename and saves no tag, no file and no
\* tag container differs from what it was when the run was confirmed, and a finished
\* run has emitted exactly one simulated event per planned operation, in plan order.
C3_DryRunMutatesNothing ==
    dry_run =>
        /\ calls = <<>>
        /\ lost = {}
        /\ clicks >= 1 =>
              /\ tagdb = snap.tagdb
              /\ \A f \in DOMAIN fs : f \in DOMAIN snap.fs /\ fs[f] = snap.fs[f]
              /\ Cardinality(DOMAIN snap.fs \ DOMAIN fs) <= deletes
        /\ pc = "done" =>
              /\ Len(Printed("DryRun")) = Len(plan)
              /\ \A i \in 1..Len(plan) : Printed("DryRun")[i].item = i
              /\ Printed("Processed") = <<>>

\* C3 witness: a dry-run rename run over two planned items has finished
C3_Witness ==
    /\ dry_run /\ pc = "done" /\ mode = "Rename"
    /\ Len(plan) >= 2
    /\ Len(Printed("DryRun")) = Len(plan)
    /\ DOMAIN fs = DOMAIN snap.fs

\* the same in TagWrite mode
C3_WitnessTags ==
    /\ dry_run /\ pc = "done" /\ mode = "TagWrite"
    /\ Len(plan) >= 2
    /\ Len(Printed("DryRun")) = Len(plan)

\* C4: in commit mode a rename whose target exists when it is executed, or whose source
\* is gone, fails, and no existing file is ever replaced.
C4_NoSilentOverwrite ==
    /\ \A n \in 1..Len(calls) : (calls[n].dst_there \/ ~calls[n].src_there) => calls[n].raised
    /\ lost = {}

\* the plan outcome of an entry when the parser is handed the normalized name
NormalizedOutcome(f) ==
    LET n == normalize_file_name(PathName(f))
    IN  IF mode = "Rename"
        THEN IF rename_parse_file_name(n) = None THEN None
             ELSE [old |-> f,
                   new |-> PathParent(f) \o <<generate_new_file_name(rename_parse_file_name(n))>>]
        ELSE IF tags_parse_file_name(n) = None THEN None
             ELSE [old |-> f, tags |-> tags_parse_file_name(n)]

\* C8: in both modes every discovered entry is planned from its NFKC-normalized name:
\* it is skipped when the normalized name does not parse, and planned with the record
\* of the normalized name otherwise.
C8_PlannerNormalizes ==
    (pc = "preview" /\ clicks = 0 /\ deletes = 0) =>
        \A f \in Glob(root, recursive, fs) :
            IF NormalizedOutcome(f) = None
            THEN \E n \in 1..Len(out) : out[n] = [kind |-> "Skipped", path |-> f]
            ELSE \E i \in 1..Len(plan) : plan[i] = NormalizedOutcome(f)

\* C9: every rename the executor issues has the planned entry as its source and the
\* synthesized name in the entry's directory as its target.
C9_RenamesPlannedPaths ==
    \A n \in 1..Len(calls) :
        /\ calls[n].src = Abs(plan[calls[n].item].old)
        /\ calls[n].dst = Abs(plan[calls[n].item].new)

\* ================================================================ claims about the parsers

IsRecord(r) == r # Unset /\ r # None

RECURSIVE Trim(_)
Trim(s) ==
    IF s = <<>> THEN s
    ELSE IF s[1] = " " THEN Trim(PyFrom(s, 1))
    ELSE IF s[Len(s)] = " " THEN Trim(SubSeq(s, 1, Len(s) - 1))
    ELSE s

\* the record the three conventions prescribe for a name, as C5 words them
ConventionRecord(file) ==
    IF StartsWith(file, <<"E", "X", "_">>)
    THEN LET seg == Split(PySlice(file, 3, -4), <<"_">>)
         IN  IF Len(seg) = 2 /\ seg[1] # <<>> /\ seg[2] # <<>>
             THEN [Character |-> seg[1], Suffix |-> seg[2], IsEX |-> TRUE]
             ELSE None
    ELSE LET seg == Split(PySlice(file, 0, -4), <<"_">>)
         IN  IF Len(seg) = 2
             THEN [Character |-> seg[1], Suffix |-> seg[2], IsEX |-> FALSE]
             ELSE IF Len(seg) = 3 /\ seg[1] = <<"0", "1">>
             THEN [Character |-> seg[2], Suffix |-> seg[3], IsEX |-> FALSE]
             ELSE None

\* C5: for every normalized name ending in ".mp3", parse_file_name of rename_mp3.py
\* returns exactly the record the three conventions prescribe: "EX_" plus two
\* non-empty segments, else two segments, else "01" plus two segments, else no match;
\* a name starting with "EX_" is never classified by the second or third convention.
C5_ParseFollowsConventions ==
    (script = "rename" /\ parsed_name # Unset) => parsed_name = ConventionRecord(file_name)

\* the tags C6 prescribes for a name
TitleOf(t, performer) ==
    IF EndsWith(t, <<" ", "E", "X">>)
    THEN SubSeq(t, 1, Len(t) - 3) \o <<" ", "(">> \o performer \o <<")", " ", "E", "X">>
    ELSE t \o <<" ", "(">> \o performer \o <<")">>

PrescribedTags(file) ==
    LET body == SubSeq(file, 1, Len(file) - 4)
        parts == Split(body, <<" ", "-", " ">>)
    IN  IF Len(parts) # 2 THEN None
        ELSE IF ~StartsWith(parts[1], <<"[">>) \/ ~Contains(parts[1], "]") THEN None
        ELSE LET close == IndexOf(parts[1], "]") + 1
                 album == SubSeq(parts[1], 2, close - 1)
                 performer == SubSeq(parts[1], close + 1, Len(parts[1]))
                 pieces == SplitMax(parts[2], <<" ">>, 1)
                 positive == Len(pieces) = 2 /\ PyInt(pieces[1]).ok /\ PyInt(pieces[1]).val >= 1
             IN  [track_name |-> TitleOf(IF positive THEN pieces[2] ELSE parts[2], performer),
                  artist_name |-> performer,
                  album_name |-> album,
                  track_number |-> IF positive THEN PyInt(pieces[1]).val ELSE 1]

\* C6: for every name the tag parser accepts, the track number is the leading
\* positive integer of the track part and the title is built from the rest, or the
\* track number is 1 and the title is built from the whole track part; the title
\* carries the performer in parentheses, before a trailing " EX"; a body without
\* exactly one " - " or without a "[album]" prefix yields no match.
C6_TagsFollowContract ==
    (script = "tags" /\ id3 # Unset) => id3 = PrescribedTags(file_name)

\* C7: every record the parsers hand to the planner satisfies its data-model
\* invariant: character and suffix non-empty after trimming; track number >= 1,
\* album and performer non-empty.
C7_RecordsSatisfyInvariant ==
    /\ IsRecord(parsed_name) =>
          Trim(parsed_name.Character) # <<>> /\ Trim(parsed_name.Suffix) # <<>>
    /\ IsRecord(id3) =>
          id3.track_number >= 1 /\ id3.album_name # <<>> /\ id3.artist_name # <<>>

\* the tags C10 expects for a record of the rename parser
ComposedTags(p) ==
    [track_name |-> p.Suffix \o <<" ", "(">> \o p.Character \o <<")">>
                    \o (IF p.IsEX THEN <<" ", "E", "X">> ELSE <<>>),
     artist_name |-> p.Character,
     album_name |-> p.Suffix,
     track_number |-> IF p.IsEX THEN 2 ELSE 1]

\* positions at which pat occurs in s
Occurrences(s, pat) ==
    {i \in 1..(Len(s) - Len(pat) + 1) : SubSeq(s, i, i + Len(pat) - 1) = pat}

\* the name "[suffix]character - NN suffix[ EX].mp3" holds " - " only where the
\* synthesizer put it, its suffix holds no "]", and a suffix ending in " EX" belongs
\* to an extra record
Composable(p) ==
    /\ ~Contains(p.Suffix, "]")
    /\ Occurrences(<<"[">> \o p.Suffix \o <<"]">> \o p.Character \o <<" ", "-", " ">>
                   \o <<"0", "0", " ">> \o p.Suffix
                   \o (IF p.IsEX THEN <<" ", "E", "X">> ELSE <<>>),
                   <<" ", "-", " ">>)
         = {Len(p.Suffix) + Len(p.Character) + 3}
    /\ p.IsEX \/ ~EndsWith(p.Suffix, <<" ", "E", "X">>)

\* C10 as stated: for every record the rename parser returns, the tag parser applied
\* to the generated name yields album = suffix, performer = character, track number
\* 2 or 1 and the title "suffix (character)[ EX]", whatever the strings contain.
C10_ComposeAlways ==
    (IsRecord(parsed_name) /\ new_name # Unset /\ id3 # Unset) => id3 = ComposedTags(parsed_name)

\* C10 amended: the same, for records whose suffix holds no "]", whose generated name
\* holds " - " only at the separator the synthesizer inserts, and whose suffix does
\* not end in " EX" unless the record is an extra.
C10_ComposeWhenUnambiguous ==
    (IsRecord(parsed_name) /\ new_name # Unset /\ id3 # Unset /\ Composable(parsed_name))
        => id3 = ComposedTags(parsed_name)

\* C10 witness: an extra record with a non-empty suffix composes
C10_Witness ==
    /\ IsRecord(parsed_name) /\ new_name # Unset /\ id3 # Unset
    /\ Composable(parsed_name)
    /\ parsed_name.IsEX
    /\ parsed_name.Suffix # <<>>
    /\ id3 = ComposedTags(parsed_name)

\* the amendment leaves out nothing that composes
C10_Exact ==
    (IsRecord(parsed_name) /\ new_name # Unset /\ id3 # Unset /\ ~Composable(parsed_name))
        => id3 # ComposedTags(parsed_name)

====
